---- MODULE Spec2Model ----
(***************************************************************************)
(* Model of server.py: a static file server built from                     *)
(* socketserver.TCPServer and a subclass of                                *)
(* http.server.SimpleHTTPRequestHandler that adds CORS headers in          *)
(* end_headers and answers OPTIONS.                                        *)
(*                                                                         *)
(* A request target is a sequence of tokens ("/", a name, an extension,    *)
(* "?"), so that endswith('.js'), the query split of translate_path and    *)
(* the extension lookup of guess_type are computed, not assumed.           *)
(***************************************************************************)
EXTENDS Integers, Sequences, FiniteSets, TLC

VARIABLES pc, sock, exitCode, portBusy, stdout, errlog,
          pending, active, arrived, accepted, served, aborted, interrupts

vars == <<pc, sock, exitCode, portBusy, stdout, errlog,
          pending, active, arrived, accepted, served, aborted, interrupts>>

\* ------------------------------------------------------------------ bounds
MaxConns == 3
MaxBacklog == 2
MaxInterrupts == 2

\* ------------------------------------------------------- request alphabet
Methods == {"GET", "HEAD", "POST", "OPTIONS", "DELETE"}

Versions == {"HTTP/1.0", "HTTP/1.1", "HTTP/2.0", "FOO"}

Targets ==
  { <<"/">>,
    <<"/", "index", ".html">>,
    <<"/", "index", ".html", "/">>,
    <<"/", "index", ".html", "?", "v", ".js">>,
    <<"/", "app", ".js">>,
    <<"/", "style", ".css">>,
    <<"/", "secret", ".txt">>,
    <<"/", "docs">>,
    <<"/", "docs", "/">>,
    <<"/", "missing", ".txt">>,
    <<"/", "gone", ".js">> }

\* State of the header block the client sends after the request line.
HeaderKinds == {"plain", "ims", "toomany", "linetoolong"}

RequestLines ==
  { <<m, t, v>> : m \in Methods, t \in Targets, v \in Versions }
    \cup { <<m, t>> : m \in {"GET", "OPTIONS"}, t \in Targets }
    \cup { <<"GET", <<"/", "app", ".js">>, "x", "HTTP/1.1">> }
    \cup { <<"GET">>, << >> }

Requests ==
  [words : RequestLines, long : {FALSE}, hdrs : HeaderKinds]
    \cup [words : {<<"GET", <<"/", "app", ".js">>, "HTTP/1.1">>},
          long : {TRUE}, hdrs : {"plain"}]

\* ------------------------------------------------------------- filesystem
\* The serving root after os.chdir(current_dir): directories and files,
\* named by the tokens of their path below the root.
FSDirs == { << >>, <<"docs">> }

FSFiles == { <<"index", ".html">>, <<"app", ".js">>, <<"style", ".css">>,
             <<"secret", ".txt">> }

FSUnreadable == { <<"secret", ".txt">> }

FileBytes(f) ==
  CASE f = <<"index", ".html">> -> <<"<html>", "</html>">>
    [] f = <<"app", ".js">>     -> <<"x=1">>
    [] f = <<"style", ".css">>  -> <<"b{}">>
    [] OTHER                    -> <<"s", "e", "c">>

\* ------------------------------------------------------------ MIME table
\* mimetypes.add_type('application/javascript', '.js'), add_type('text/css',
\* '.css') on top of the table the library ships.
TypesMap(ext) ==
  CASE ext = ".js"   -> "application/javascript"
    [] ext = ".css"  -> "text/css"
    [] ext = ".html" -> "text/html"
    [] ext = ".txt"  -> "text/plain"
    [] OTHER         -> "application/octet-stream"

ExtTokens == {".js", ".css", ".html", ".txt"}

\* ---------------------------------------------------------- path helpers
\* str.endswith('.js') on the raw request target.
EndsWithJs(path) == Len(path) > 0 /\ path[Len(path)] = ".js"

IndexOfCut(path) ==
  LET cuts == { i \in 1..Len(path) : path[i] \in {"?", "#"} }
  IN IF cuts = {} THEN Len(path) + 1
     ELSE CHOOSE i \in cuts : \A j \in cuts : i <= j

\* path.split('?',1)[0].split('#',1)[0]
StripQuery(path) == SubSeq(path, 1, IndexOfCut(path) - 1)

RECURSIVE TrimSlashes(_)
TrimSlashes(p) ==
  IF Len(p) > 0 /\ p[1] = "/" THEN TrimSlashes(Tail(p))
  ELSE IF Len(p) > 0 /\ p[Len(p)] = "/" THEN TrimSlashes(SubSeq(p, 1, Len(p) - 1))
  ELSE p

\* translate_path: the file below the root and whether the URL path ended
\* with a slash.
TranslatePath(path) ==
  LET p == StripQuery(path)
  IN [file |-> TrimSlashes(p),
      slash |-> Len(p) > 0 /\ p[Len(p)] = "/"]

\* os.path.isdir of the translated path.
IsDir(tp) == tp.file \in FSDirs

\* posixpath.splitext: the extension of the last component.
SplitExt(file) ==
  IF Len(file) >= 2 /\ file[Len(file)] \in ExtTokens /\ file[Len(file) - 1] # "/"
  THEN file[Len(file)] ELSE ""

GuessType(file) == TypesMap(SplitExt(file))

\* ------------------------------------------------- the handler's response
\* A handler instance (one per connection).  statusBuf/hdrBuf are
\* _headers_buffer; status/headers/body are what reached the socket
\* (status 0: no status line was written); raised: an exception left
\* handle(); fsAccess: the filesystem was consulted.
NewHandler ==
  [request_version |-> "HTTP/0.9", command |-> "", path |-> << >>,
   hasPath |-> FALSE, ims |-> FALSE,
   statusBuf |-> 0, hdrBuf |-> << >>,
   status |-> 0, headers |-> << >>, body |-> << >>,
   sent |-> FALSE, raised |-> FALSE, fsAccess |-> FALSE]

\* BaseHTTPRequestHandler.send_response_only
SendResponseOnly(h, code) ==
  IF h.raised \/ h.request_version = "HTTP/0.9" THEN h
  ELSE [h EXCEPT !.statusBuf = code]

\* BaseHTTPRequestHandler.send_header
SendHeader(h, keyword, value) ==
  IF h.raised \/ h.request_version = "HTTP/0.9" THEN h
  ELSE [h EXCEPT !.hdrBuf = Append(@, <<keyword, value>>)]

\* BaseHTTPRequestHandler.send_response
SendResponse(h, code) ==
  SendHeader(SendHeader(SendResponseOnly(h, code),
                        "Server", "SimpleHTTP/0.6"), "Date", "now")

\* BaseHTTPRequestHandler.end_headers / flush_headers
BaseEndHeaders(h) ==
  IF h.raised \/ h.request_version = "HTTP/0.9" THEN h
  ELSE [h EXCEPT !.status = h.statusBuf, !.headers = h.hdrBuf,
                 !.hdrBuf = << >>, !.sent = TRUE]

\* wfile.write(data)
WriteBody(h, data) ==
  IF h.raised THEN h
  ELSE [h EXCEPT !.body = @ \o data, !.sent = @ \/ (data # << >>)]

\* The three CORS headers of CustomHTTPRequestHandler.end_headers.
CorsHeaders ==
  << <<"Access-Control-Allow-Origin", "*">>,
     <<"Access-Control-Allow-Methods", "GET, POST, OPTIONS">>,
     <<"Access-Control-Allow-Headers", "Content-Type">> >>

\* end_headers with the Allow-Headers line forgotten.
SendCorsWithoutAllowHeaders(h) ==
  SendHeader(SendHeader(h,
      "Access-Control-Allow-Origin", "*"),
      "Access-Control-Allow-Methods", "GET, POST, OPTIONS")

SendCors(h) ==
  SendHeader(SendHeader(SendHeader(h,
      CorsHeaders[1][1], CorsHeaders[1][2]),
      CorsHeaders[2][1], CorsHeaders[2][2]),
      CorsHeaders[3][1], CorsHeaders[3][2])

\* CustomHTTPRequestHandler.end_headers.  self.path is read after the CORS
\* headers are buffered; on a handler whose request line never parsed the
\* attribute does not exist and the read raises AttributeError before
\* anything is flushed.
EndHeaders(h) ==
  LET h3 == SendCors(h)
  IN IF h3.raised THEN h3
     ELSE IF ~h3.hasPath THEN [h3 EXCEPT !.raised = TRUE]
     ELSE BaseEndHeaders(
            IF EndsWithJs(h3.path)
            THEN SendHeader(h3, "Content-Type", "application/javascript")
            ELSE h3)

ErrorPage(code) == <<"<h1>Error response</h1>", ToString(code)>>

\* BaseHTTPRequestHandler.send_error, whose self.end_headers() is the
\* override above.
SendError(h, code) ==
  LET body == ErrorPage(code)
      h1 == SendHeader(SendResponse(h, code), "Connection", "close")
      h2 == SendHeader(SendHeader(h1, "Content-Type", "text/html;charset=utf-8"),
                       "Content-Length", ToString(Len(body)))
      h3 == EndHeaders(h2)
  IN IF h.command # "HEAD" THEN WriteBody(h3, body) ELSE h3

\* ----------------------------------------------------------- parse_request
VersionValid(v) == v \in {"HTTP/1.0", "HTTP/1.1", "HTTP/2.0"}

VersionNumber(v) ==
  CASE v = "HTTP/1.0" -> <<1, 0>>
    [] v = "HTTP/1.1" -> <<1, 1>>
    [] OTHER          -> <<2, 0>>

\* BaseHTTPRequestHandler.parse_request: [ok, h].
ParseRequest(h0, req) ==
  LET words == req.words
      n == Len(words)
      version == words[n]
      hv == IF n >= 3 THEN [h0 EXCEPT !.request_version = version] ELSE h0
      hp == [hv EXCEPT !.command = words[1], !.path = words[2],
                       !.hasPath = TRUE, !.ims = (req.hdrs = "ims")]
  IN IF n = 0 THEN [ok |-> FALSE, h |-> h0]
     ELSE IF n >= 3 /\ ~VersionValid(version)
       THEN [ok |-> FALSE, h |-> SendError(h0, 400)]
     ELSE IF n >= 3 /\ VersionNumber(version)[1] >= 2
       THEN [ok |-> FALSE, h |-> SendError(h0, 505)]
     ELSE IF ~(2 <= n /\ n <= 3)
       THEN [ok |-> FALSE, h |-> SendError(hv, 400)]
     ELSE IF n = 2 /\ words[1] # "GET"
       THEN [ok |-> FALSE, h |-> SendError(hv, 400)]
     ELSE IF req.hdrs \in {"linetoolong", "toomany"}
       THEN [ok |-> FALSE, h |-> SendError(hp, 431)]
     ELSE [ok |-> TRUE, h |-> hp]

\* ---------------------------------------------- SimpleHTTPRequestHandler
NoFile == <<"<none>">>

\* SimpleHTTPRequestHandler.list_directory
ListDirectory(h, dir) ==
  LET body == <<"<h1>Directory listing</h1>">>
      h1 == SendResponse(h, 200)
      h2 == SendHeader(SendHeader(h1, "Content-type", "text/html; charset=utf-8"),
                       "Content-Length", ToString(Len(body)))
  IN [h |-> EndHeaders(h2), f |-> NoFile, data |-> body]

\* SimpleHTTPRequestHandler.send_head: the handler after the headers and
\* the bytes the caller has to copy (data; f = NoFile: nothing to copy).
SendHead(hIn) ==
  LET h == [hIn EXCEPT !.fsAccess = TRUE]
      tp == TranslatePath(h.path)
      index == IF tp.file = << >> THEN <<"index", ".html">>
               ELSE tp.file \o <<"/", "index", ".html">>
      viaIndex == IsDir(tp) /\ index \in FSFiles
      file == IF viaIndex THEN index ELSE tp.file
      slash == IF viaIndex THEN FALSE ELSE tp.slash
      ctype == GuessType(file)
      none(hh) == [h |-> hh, f |-> NoFile, data |-> << >>]
  IN IF IsDir(tp) /\ ~tp.slash
       THEN none(EndHeaders(SendHeader(SendHeader(SendResponse(h, 301),
                     "Location", "path/"), "Content-Length", "0")))
     ELSE IF IsDir(tp) /\ ~viaIndex THEN ListDirectory(h, tp.file)
     ELSE IF slash THEN none(SendError(h, 404))
     ELSE IF file \notin FSFiles \/ file \in FSUnreadable
       THEN none(SendError(h, 404))
     ELSE IF h.ims THEN none(EndHeaders(SendResponse(h, 304)))
     ELSE [h |-> EndHeaders(
                   SendHeader(SendHeader(SendHeader(SendResponse(h, 200),
                       "Content-type", ctype),
                       "Content-Length", ToString(Len(FileBytes(file)))),
                       "Last-Modified", "mtime")),
           f |-> file, data |-> FileBytes(file)]

\* do_GET that sends the headers and forgets to copy the file.
DoGETWithoutCopy(h) == SendHead(h).h

\* SimpleHTTPRequestHandler.do_GET
DoGET(h) ==
  LET r == SendHead(h)
  IN IF r.h.raised THEN r.h ELSE WriteBody(r.h, r.data)

\* SimpleHTTPRequestHandler.do_HEAD
DoHEAD(h) == SendHead(h).h

\* do_OPTIONS answered like HEAD: the path is resolved against the root.
DoOPTIONSAsHead(h) == SendHead(h).h

\* CustomHTTPRequestHandler.do_OPTIONS
DoOPTIONS(h) == EndHeaders(SendResponse(h, 200))

\* hasattr(self, 'do_' + command): the subclass defines do_OPTIONS and
\* inherits do_GET and do_HEAD; nothing defines do_POST.
HasMethod(command) == command \in {"GET", "HEAD", "OPTIONS"}

\* BaseHTTPRequestHandler.handle_one_request: the handler when handle()
\* is left (normally or by the exception).
HandleOneRequest(req) ==
  IF req.long
  THEN SendError([NewHandler EXCEPT !.request_version = ""], 414)
  ELSE LET p == ParseRequest(NewHandler, req)
       IN IF ~p.ok THEN p.h
          ELSE IF ~HasMethod(p.h.command) THEN SendError(p.h, 501)
          ELSE IF p.h.command = "GET" THEN DoGET(p.h)
          ELSE IF p.h.command = "HEAD" THEN DoHEAD(p.h)
          ELSE DoOPTIONS(p.h)

\* ------------------------------------------------------ the main program
\* pc: "chdir" (line 30), "announce" (32-33), "bind" (35), "serving" (37),
\* "except" (39), "close" (40), "withexit" (leaving the with block),
\* "exited".  sock: the listening socket, "none" | "open" | "closed".
\* active: the handlers constructed and not yet returned, each
\* [stage, req, out]; pending: connections in the listen backlog.
NoRequest == [words |-> << >>, long |-> FALSE, hdrs |-> "plain"]

Init ==
  /\ pc = "chdir"
  /\ sock = "none"
  /\ exitCode = -1
  /\ portBusy \in BOOLEAN
  /\ stdout = << >>
  /\ errlog = 0
  /\ pending = 0
  /\ active = << >>
  /\ arrived = 0
  /\ accepted = 0
  /\ served = 0
  /\ aborted = 0
  /\ interrupts = << >>

\* os.chdir(current_dir)
Chdir ==
  /\ pc = "chdir"
  /\ pc' = "announce"
  /\ UNCHANGED <<sock, exitCode, portBusy, stdout, errlog, pending, active,
                 arrived, accepted, served, aborted, interrupts>>

\* The two startup prints.
Announce ==
  /\ pc = "announce"
  /\ stdout' = stdout \o <<"Starting server", "Serving files from">>
  /\ pc' = "bind"
  /\ UNCHANGED <<sock, exitCode, portBusy, errlog, pending, active,
                 arrived, accepted, served, aborted, interrupts>>

\* A bind that does not fail on a held port.
BindIgnoringBusy(busy) == "serving"

\* socketserver.TCPServer(("", PORT), ...): server_bind raises OSError when
\* the port is held; the constructor closes the socket and re-raises, and
\* nothing catches it: traceback, exit status 1.
BindOutcome(busy) == IF busy THEN "exited" ELSE "serving"

Bind ==
  /\ pc = "bind"
  /\ pc' = BindOutcome(portBusy)
  /\ sock' = IF pc' = "serving" THEN "open" ELSE "closed"
  /\ exitCode' = IF pc' = "serving" THEN exitCode ELSE 1
  /\ errlog' = IF pc' = "serving" THEN errlog ELSE errlog + 1
  /\ UNCHANGED <<portBusy, stdout, pending, active, arrived, accepted,
                 served, aborted, interrupts>>

\* A client connects: the kernel queues the connection on the listening
\* socket.
ClientConnect ==
  /\ sock = "open"
  /\ arrived < MaxConns
  /\ pending < MaxBacklog
  /\ pending' = pending + 1
  /\ arrived' = arrived + 1
  /\ UNCHANGED <<pc, sock, exitCode, portBusy, stdout, errlog, active,
                 accepted, served, aborted, interrupts>>

\* A threading server: the loop accepts while handlers run.
CanAcceptThreaded(running) == TRUE

\* TCPServer.process_request runs the handler inside the serve loop: the
\* loop is back at its select/accept only when no handler is running.
CanAccept(running) == running = << >>

\* serve_forever -> _handle_request_noblock -> get_request
Accept ==
  /\ pc = "serving"
  /\ pending > 0
  /\ CanAccept(active)
  /\ pending' = pending - 1
  /\ accepted' = accepted + 1
  /\ active' = Append(active,
                 [stage |-> "accepted", req |-> NoRequest, out |-> NewHandler])
  /\ UNCHANGED <<pc, sock, exitCode, portBusy, stdout, errlog, arrived,
                 served, aborted, interrupts>>

\* finish_request: the handler reads the request and answers it.  An
\* exception leaving the handler is caught by _handle_request_noblock
\* (except Exception: handle_error prints the traceback).
Handle(i) ==
  /\ pc = "serving"
  /\ i \in 1..Len(active)
  /\ active[i].stage = "accepted"
  /\ \E req \in Requests :
       LET out == HandleOneRequest(req)
       IN /\ active' = [active EXCEPT ![i] =
                          [stage |-> "handled", req |-> req, out |-> out]]
          /\ errlog' = IF out.raised THEN errlog + 1 ELSE errlog
  /\ UNCHANGED <<pc, sock, exitCode, portBusy, stdout, pending, arrived,
                 accepted, served, aborted, interrupts>>

RemoveAt(seq, i) == SubSeq(seq, 1, i - 1) \o SubSeq(seq, i + 1, Len(seq))

\* shutdown_request: the connection is closed, the loop goes on.
ShutdownRequest(i) ==
  /\ pc = "serving"
  /\ i \in 1..Len(active)
  /\ active[i].stage = "handled"
  /\ active' = RemoveAt(active, i)
  /\ served' = served + 1
  /\ UNCHANGED <<pc, sock, exitCode, portBusy, stdout, errlog, pending,
                 arrived, accepted, aborted, interrupts>>

\* No except clause: the interrupt always leaves the with block.
InterruptUncaught(at) == "exited"

\* Where a KeyboardInterrupt raised at pc lands: inside the try block the
\* except clause catches it; anywhere else in the with block it leaves the
\* block through __exit__; before the with block it is uncaught.
InterruptTarget(at) == IF at = "serving" THEN "except" ELSE "exited"

\* SIGINT: KeyboardInterrupt is raised in the main thread wherever it is.
\* It is not an Exception, so a running handler is abandoned
\* (_handle_request_noblock: except: shutdown_request; raise).
Interrupt ==
  /\ pc # "exited"
  /\ Len(interrupts) < MaxInterrupts
  /\ interrupts' = Append(interrupts, pc)
  /\ pc' = InterruptTarget(pc)
  /\ aborted' = aborted + Len(active)
  /\ active' = << >>
  /\ sock' = IF pc' = "exited" /\ sock = "open" THEN "closed" ELSE sock
  /\ pending' = IF sock' = "open" THEN pending ELSE 0
  /\ exitCode' = IF pc' = "exited" THEN 130 ELSE exitCode
  /\ errlog' = IF pc' = "exited" THEN errlog + 1 ELSE errlog
  /\ UNCHANGED <<portBusy, stdout, arrived, accepted, served>>

\* print("\nServer stopped.")
PrintStopped ==
  /\ pc = "except"
  /\ stdout' = Append(stdout, "Server stopped.")
  /\ pc' = "close"
  /\ UNCHANGED <<sock, exitCode, portBusy, errlog, pending, active,
                 arrived, accepted, served, aborted, interrupts>>

\* httpd.server_close()
ServerClose ==
  /\ pc = "close"
  /\ sock' = "closed"
  /\ pending' = 0
  /\ pc' = "withexit"
  /\ UNCHANGED <<exitCode, portBusy, stdout, errlog, active,
                 arrived, accepted, served, aborted, interrupts>>

\* BaseServer.__exit__ calls server_close() again; the module ends and the
\* interpreter exits with status 0.
WithExit ==
  /\ pc = "withexit"
  /\ sock' = "closed"
  /\ pc' = "exited"
  /\ exitCode' = 0
  /\ UNCHANGED <<portBusy, stdout, errlog, pending, active,
                 arrived, accepted, served, aborted, interrupts>>

Next ==
  \/ Chdir
  \/ Announce
  \/ Bind
  \/ ClientConnect
  \/ Accept
  \/ \E i \in 1..MaxConns : Handle(i)
  \/ \E i \in 1..MaxConns : ShutdownRequest(i)
  \/ Interrupt
  \/ PrintStopped
  \/ ServerClose
  \/ WithExit

Spec == Init /\ [][Next]_vars

\* The main thread runs on: a pending statement of the program is executed.
FairSpec ==
  Spec /\ WF_vars(PrintStopped) /\ WF_vars(ServerClose) /\ WF_vars(WithExit)

\* ------------------------------------------------------------ vocabulary
Handled == { i \in 1..Len(active) : active[i].stage = "handled" }

Target(req) == req.words[2]

\* The values of the response headers called name (one of names).
HeaderValues(out, names) ==
  { out.headers[k][2] : k \in { j \in 1..Len(out.headers) : out.headers[j][1] \in names } }

HeaderCount(out, name) ==
  Cardinality({ j \in 1..Len(out.headers) : out.headers[j][1] = name })

CarriesCors(out) ==
  /\ HeaderCount(out, "Access-Control-Allow-Origin") = 1
  /\ HeaderValues(out, {"Access-Control-Allow-Origin"}) = {"*"}
  /\ HeaderCount(out, "Access-Control-Allow-Methods") = 1
  /\ HeaderValues(out, {"Access-Control-Allow-Methods"}) = {"GET, POST, OPTIONS"}
  /\ HeaderCount(out, "Access-Control-Allow-Headers") = 1
  /\ HeaderValues(out, {"Access-Control-Allow-Headers"}) = {"Content-Type"}

ContentTypes(out) == HeaderValues(out, {"Content-Type", "Content-type"})

\* A request line of three words with an HTTP/1.x version; Parses: its
\* header block parses too.
Http1Line(req) ==
  ~req.long /\ Len(req.words) = 3 /\ req.words[3] \in {"HTTP/1.0", "HTTP/1.1"}

Parses(req) == Http1Line(req) /\ req.hdrs \in {"plain", "ims"}

\* An HTTP/0.9 simple request: "GET <target>".
SimpleRequest(req) == ~req.long /\ Len(req.words) = 2 /\ req.words[1] = "GET"

\* A request line that is not a request line of HTTP/0.9 or HTTP/1.x.
MalformedLine(req) ==
  \/ req.long
  \/ Len(req.words) = 1
  \/ Len(req.words) > 3
  \/ Len(req.words) = 3 /\ req.words[3] = "FOO"
  \/ Len(req.words) = 2 /\ req.words[1] # "GET"

\* ------------------------------------------------------------------- C1
\* C1 as stated: every response the server sends carries the three CORS
\* headers with exactly the specified values.
C1_EveryResponseCarriesCors ==
  \A i \in Handled : active[i].out.sent => CarriesCors(active[i].out)

\* C1 amended: every response to a request that is not an HTTP/0.9 simple
\* request (whose response has no header section) carries each of the three
\* CORS headers exactly once with exactly the specified value, whatever the
\* method, path and status.
C1_Http1ResponseCarriesCors ==
  \A i \in Handled :
    (active[i].out.sent /\ ~SimpleRequest(active[i].req))
      => CarriesCors(active[i].out)

C1_Witness ==
  \E i \in Handled :
    /\ active[i].out.sent
    /\ active[i].out.status = 501
    /\ active[i].req.words[1] = "DELETE"
    /\ CarriesCors(active[i].out)

\* ------------------------------------------------------------------- C2
\* C2: an OPTIONS request (a request that parses, with method OPTIONS) to
\* any path is answered with status 200 and an empty body, carries the
\* injected headers (the CORS headers, and the forced Content-Type when the
\* path ends in .js), and the filesystem is not consulted.
C2_OptionsIs200Empty ==
  \A i \in Handled :
    (Parses(active[i].req) /\ active[i].req.words[1] = "OPTIONS")
      => /\ active[i].out.sent
         /\ ~active[i].out.raised
         /\ active[i].out.status = 200
         /\ active[i].out.body = << >>
         /\ CarriesCors(active[i].out)
         /\ (EndsWithJs(Target(active[i].req))
               => ContentTypes(active[i].out) = {"application/javascript"})
         /\ ~active[i].out.fsAccess

C2_Witness ==
  \E i \in Handled :
    /\ active[i].req.words = <<"OPTIONS", <<"/", "gone", ".js">>, "HTTP/1.1">>
    /\ active[i].req.hdrs = "plain"
    /\ active[i].out.status = 200
    /\ active[i].out.body = << >>

\* ------------------------------------------------------------------- C3
\* C3: for a request whose path ends with .js, a 200 response has a
\* Content-Type that is exactly application/javascript.
C3_JsContentTypeExact ==
  \A i \in Handled :
    (Parses(active[i].req) /\ EndsWithJs(Target(active[i].req))
       /\ active[i].out.sent /\ active[i].out.status = 200)
      => ContentTypes(active[i].out) = {"application/javascript"}

\* ------------------------------------------------------------------- C4
NamesFile(req) ==
  /\ TranslatePath(Target(req)).file \in FSFiles
  /\ ~TranslatePath(Target(req)).slash

NamesNothing(req) ==
  TranslatePath(Target(req)).file \notin (FSFiles \cup FSDirs)

IsGet(req) ==
  /\ req.hdrs \in {"plain", "ims"}
  /\ \/ Parses(req) /\ req.words[1] = "GET"
     \/ SimpleRequest(req)

\* C4 as stated: a GET for a path naming an existing file is answered 200
\* with the file's bytes, and a GET for a path naming nothing is answered
\* 404.
C4_GetServesEveryFile ==
  \A i \in Handled :
    IsGet(active[i].req) =>
      /\ NamesFile(active[i].req)
           => /\ active[i].out.status = 200
              /\ active[i].out.body = FileBytes(TranslatePath(Target(active[i].req)).file)
      /\ NamesNothing(active[i].req) => active[i].out.status = 404

\* C4 amended: an HTTP/1.x GET for a path naming an existing file that the
\* server can open, with no If-Modified-Since condition that the file
\* satisfies, is answered 200 with the file's bytes; an HTTP/1.x GET for a
\* path naming nothing under the root is answered 404.
C4_GetServesReadableFile ==
  \A i \in Handled :
    (Parses(active[i].req) /\ active[i].req.words[1] = "GET") =>
      /\ ( /\ NamesFile(active[i].req)
           /\ TranslatePath(Target(active[i].req)).file \notin FSUnreadable
           /\ active[i].req.hdrs # "ims" )
           => /\ active[i].out.sent
              /\ active[i].out.status = 200
              /\ active[i].out.body = FileBytes(TranslatePath(Target(active[i].req)).file)
      /\ NamesNothing(active[i].req)
           => active[i].out.sent /\ active[i].out.status = 404

C4_Witness ==
  \E i \in Handled :
    /\ active[i].req.words = <<"GET", <<"/", "index", ".html">>, "HTTP/1.1">>
    /\ active[i].req.hdrs = "plain"
    /\ active[i].out.status = 200
    /\ active[i].out.body = <<"<html>", "</html>">>

\* ------------------------------------------------------------------- C5
C5_AtExit ==
  /\ pc \in {"withexit", "exited"} => sock # "open"
  /\ pc \in {"except", "close", "withexit", "exited"} => active = << >>
  /\ (pc = "exited" /\ interrupts = <<"serving">>)
       => /\ exitCode = 0
          /\ sock = "closed"
          /\ stdout[Len(stdout)] = "Server stopped."

\* C5: an interrupt received in the serve loop ends the accepting of
\* connections; the notice is printed and the socket released before the
\* process exits, which it does with code 0 (when no further interrupt
\* cuts the shutdown short); the socket is never open once the with block
\* is left; and the interrupted server does reach its exit.
C5_InterruptShutsDown ==
  /\ []C5_AtExit
  /\ [][pc # "serving" => accepted' = accepted]_vars
  /\ [][(pc = "close" /\ pc' = "withexit") =>
          (sock' = "closed" /\ stdout[Len(stdout)] = "Server stopped.")]_vars
  /\ (pc = "except") ~> (pc = "exited" /\ sock = "closed")

C5_Witness ==
  /\ pc = "exited"
  /\ interrupts = <<"serving">>
  /\ exitCode = 0
  /\ accepted > 0

\* ------------------------------------------------------------------- C6
\* C6: when the port cannot be bound the process never serves: it never
\* holds an open listening socket, never enters the serve loop or its
\* shutdown path, accepts and serves nothing, and its exit status is
\* non-zero.
C6_BindFailureIsFatal ==
  portBusy =>
    /\ pc \in {"chdir", "announce", "bind", "exited"}
    /\ sock # "open"
    /\ accepted = 0 /\ served = 0 /\ active = << >>
    /\ pc = "exited" => exitCode # 0

C6_Witness ==
  /\ portBusy
  /\ pc = "exited"
  /\ interrupts = << >>
  /\ exitCode = 1

\* ------------------------------------------------------------------- C7
\* C7: every per-request failure has been converted into an HTTP status
\* response for that request, nothing escapes the handler, and the server
\* is still in its serve loop.
C7_FailuresBecomeResponses ==
  \A i \in Handled :
    (active[i].out.raised \/ active[i].out.status >= 400 \/ MalformedLine(active[i].req))
      => /\ ~active[i].out.raised
         /\ active[i].out.sent
         /\ active[i].out.status \in 400..599
         /\ pc = "serving"

\* ------------------------------------------------------------------- C8
\* C8: a request with a malformed request line is answered with a 4xx
\* response that went through the response finalization (it carries the
\* CORS headers).
C8_MalformedLineAnswered4xx ==
  \A i \in Handled :
    MalformedLine(active[i].req)
      => /\ active[i].out.sent
         /\ active[i].out.status \in 400..499
         /\ CarriesCors(active[i].out)

\* ------------------------------------------------------------------- C9
\* C9: a POST request is resolved to a file under the root and answered
\* from it, like a GET.
C9_PostServedLikeGet ==
  \A i \in Handled :
    ( /\ Parses(active[i].req) /\ active[i].req.words[1] = "POST"
      /\ active[i].req.hdrs = "plain"
      /\ NamesFile(active[i].req)
      /\ TranslatePath(Target(active[i].req)).file \notin FSUnreadable )
      => /\ active[i].out.fsAccess
         /\ active[i].out.status = 200

\* ------------------------------------------------------------------ C10
\* C10: at most one request is being handled at any moment; a connection
\* is accepted only when no handler is running; an interrupt that arrives
\* while a request is being handled ends the serve loop and that request
\* is never counted as served.
C10_OneAtATime ==
  /\ [](Len(active) <= 1)
  /\ [][accepted' > accepted => (active = << >> /\ Len(active') = 1)]_vars
  /\ [][(Len(interrupts') > Len(interrupts) /\ active # << >>)
          => /\ pc' # "serving"
             /\ active' = << >>
             /\ served' = served
             /\ aborted' = aborted + 1]_vars
  /\ [](accepted = served + aborted + Len(active))

C10_Witness ==
  /\ aborted = 1
  /\ pending >= 1
  /\ pc = "except"

====
